---- MODULE Spec2Model ----
(***************************************************************************)
(* A model of bot.py: the reading-plan bot.  One run of main() loads (or   *)
(* creates) the plan record, derives the cursor from the calendar date,    *)
(* parses the citation text, picks today's unit and hands one message to   *)
(* the messaging provider.                                                 *)
(*                                                                         *)
(* Text is modelled as a sequence of one-character strings, so that the    *)
(* regular expression scan, str.split and int() are computed, not assumed. *)
(* Calendar dates are day ordinals (date.toordinal); a time of day is a    *)
(* number of seconds since local midnight.                                 *)
(***************************************************************************)
EXTENDS Integers, Sequences, FiniteSets, TLC

VARIABLES
    file,          \* reading_plan.json: NoFile or the stored record
    today,         \* the wall clock's calendar day (ordinal)
    pc,            \* position of the current run of main()
    plan,          \* main's local `plan`
    progress,      \* main's local `progress`
    references,    \* main's local `references`
    today_ref,     \* main's local `today_ref`
    passage_data,  \* main's local `passage_data` (None or a passage)
    message,       \* the message handed to TelegramBot.send_message in this run
    sends,         \* number of send_message calls made by this run
    success,       \* main's local `success`
    wrote,         \* whether this run wrote the plan file
    reads,         \* history: the clock day and the cursor of each get_current_day call of this run
    prev,          \* history: what the last finished run that computed the progress did
    rin,           \* input of the function under check (function specifications)
    rout           \* its result

vars == <<file, today, pc, plan, progress, references, today_ref, passage_data,
          message, sends, success, wrote, reads, prev, rin, rout>>

runvars == <<file, today, pc, plan, progress, references, today_ref, passage_data,
             message, sends, success, wrote, reads, prev>>

----------------------------------------------------------------------------
(* Characters and strings *)

Digits == <<"0", "1", "2", "3", "4", "5", "6", "7", "8", "9">>

LowerChars == <<"a", "b", "c", "d", "e", "f", "g", "h", "i", "j", "k", "l", "m",
                "n", "o", "p", "q", "r", "s", "t", "u", "v", "w", "x", "y", "z">>

UpperChars == <<"A", "B", "C", "D", "E", "F", "G", "H", "I", "J", "K", "L", "M",
                "N", "O", "P", "Q", "R", "S", "T", "U", "V", "W", "X", "Y", "Z">>

Range(s) == {s[i] : i \in DOMAIN s}

\* The character classes \d, [A-Za-z] and \s
DigitChars == Range(Digits)

AlphaChars == Range(LowerChars) \cup Range(UpperChars)

SpaceChars == {" ", "\t", "\n"}

IsDigit(c) == c \in DigitChars

IsAlpha(c) == c \in AlphaChars

DigitVal(c) == (CHOOSE i \in DOMAIN Digits : Digits[i] = c) - 1

\* str.lower() and str.upper() of one character
LowerChar(c) ==
    IF c \in Range(UpperChars)
    THEN LowerChars[CHOOSE i \in DOMAIN UpperChars : UpperChars[i] = c]
    ELSE c

UpperChar(c) ==
    IF c \in Range(LowerChars)
    THEN UpperChars[CHOOSE i \in DOMAIN LowerChars : LowerChars[i] = c]
    ELSE c

lower(s) == [i \in DOMAIN s |-> LowerChar(s[i])]

\* str.title(): a cased character is upper-cased when it follows an uncased
\* one (or starts the string) and lower-cased otherwise
title(s) ==
    [i \in DOMAIN s |->
        IF i = 1 \/ ~IsAlpha(s[i - 1]) THEN UpperChar(s[i]) ELSE LowerChar(s[i])]

\* int(s) for a token of the range text: a run of decimal digits; anything
\* else the range text can hold (an empty piece, a piece with ',' or '-')
\* raises ValueError
IsInt(s) == Len(s) > 0 /\ \A i \in DOMAIN s : IsDigit(s[i])

RECURSIVE int(_)
int(s) ==
    IF Len(s) = 0 THEN 0
    ELSE 10 * int(SubSeq(s, 1, Len(s) - 1)) + DigitVal(s[Len(s)])

\* str.split(sep) for a one-character separator: the pieces between the
\* separators, empty pieces kept
RECURSIVE split(_, _)
split(s, sep) ==
    IF \A i \in DOMAIN s : s[i] # sep THEN <<s>>
    ELSE LET k == CHOOSE i \in DOMAIN s :
                      s[i] = sep /\ \A j \in 1..(i - 1) : s[j] # sep
         IN  <<SubSeq(s, 1, k - 1)>> \o split(SubSeq(s, k + 1, Len(s)), sep)

\* list(range(start, end + 1)): empty when end < start
range_exclusive(start, end) == [i \in 1..(end - start) |-> start + i - 1]

range(start, end) == [i \in 1..(end - start + 1) |-> start + i - 1]

----------------------------------------------------------------------------
(* BibleReferenceParser *)

\* The outcome of a call: the value returned, or an exception raised
Returned(v) == [raised |-> FALSE, value |-> v]
Raised == [raised |-> TRUE, value |-> <<>>]

\* One pass of the loop body of _parse_ranges on `part`
parse_part(part) ==
    IF \E i \in DOMAIN part : part[i] = "-"
    THEN LET pieces == split(part, "-")
         IN  IF Len(pieces) # 2 \/ ~IsInt(pieces[1]) \/ ~IsInt(pieces[2])
             THEN Raised
             ELSE Returned(range(int(pieces[1]), int(pieces[2])))
    ELSE IF ~IsInt(part) THEN Raised ELSE Returned(<<int(part)>>)

RECURSIVE parse_parts(_, _)
parse_parts(parts, chapters) ==
    IF parts = <<>> THEN Returned(chapters)
    ELSE LET r == parse_part(Head(parts))
         IN  IF r.raised THEN Raised
             ELSE parse_parts(Tail(parts), chapters \o r.value)

parse_ranges(ranges_text) == parse_parts(split(ranges_text, ","), <<>>)

\* The regular expression of parse, matched at position i of text s:
\*   ([A-Za-z]+)\s*(\d+(?:-\d+)?(?:,\d+(?:-\d+)?)*)
\* RunEnd is the last position of the longest run of characters of the class
\* that starts at i (i - 1 when there is none).
Min(S) == CHOOSE x \in S : \A y \in S : x <= y

RunEnd(s, i, class) ==
    LET stop == {j \in i..Len(s) : s[j] \notin class}
    IN  IF stop = {} THEN Len(s) ELSE Min(stop) - 1

At(s, i) == IF i \in DOMAIN s THEN s[i] ELSE ""

\* \d+(?:-\d+)? starting at the digit at k: its last position
ItemEnd(s, k) ==
    LET d == RunEnd(s, k, DigitChars)
    IN  IF At(s, d + 1) = "-" /\ IsDigit(At(s, d + 2))
        THEN RunEnd(s, d + 2, DigitChars)
        ELSE d

\* (?:,\d+(?:-\d+)?)* after position e: its last position
RECURSIVE ListEnd(_, _)
ListEnd(s, e) ==
    IF At(s, e + 1) = "," /\ IsDigit(At(s, e + 2))
    THEN ListEnd(s, ItemEnd(s, e + 2))
    ELSE e

\* The match starting at i, if there is one: the two groups and the position
\* after the match.  A shorter run of letters never helps: it is followed by a
\* letter, which is neither white space nor a digit.
Match(s, i) ==
    LET j == RunEnd(s, i, AlphaChars)
        k == RunEnd(s, j + 1, SpaceChars) + 1
    IN  IF j >= i /\ IsDigit(At(s, k))
        THEN LET e == ListEnd(s, ItemEnd(s, k))
             IN  [found |-> TRUE, book |-> SubSeq(s, i, j),
                  ranges |-> SubSeq(s, k, e), next |-> e + 1]
        ELSE [found |-> FALSE, book |-> <<>>, ranges |-> <<>>, next |-> i + 1]

\* re.findall: the non-overlapping matches, left to right
RECURSIVE findall(_, _)
findall(s, i) ==
    IF i > Len(s) THEN <<>>
    ELSE LET m == Match(s, i)
         IN  IF m.found
             THEN <<[book |-> m.book, ranges |-> m.ranges]>> \o findall(s, m.next)
             ELSE findall(s, m.next)

BOOKS ==
    { <<<<"g", "e", "n">>, <<"G", "e", "n", "e", "s", "i", "s">>>>,
      <<<<"g", "e", "n", "e", "s", "i", "s">>, <<"G", "e", "n", "e", "s", "i", "s">>>>,
      <<<<"p", "s">>, <<"P", "s", "a", "l", "m", "s">>>>,
      <<<<"p", "s", "a", "l", "m">>, <<"P", "s", "a", "l", "m", "s">>>>,
      <<<<"p", "s", "a", "l", "m", "s">>, <<"P", "s", "a", "l", "m", "s">>>>,
      <<<<"r", "o", "m">>, <<"R", "o", "m", "a", "n", "s">>>>,
      <<<<"r", "o", "m", "a", "n", "s">>, <<"R", "o", "m", "a", "n", "s">>>>,
      <<<<"m", "a", "t", "t">>, <<"M", "a", "t", "t", "h", "e", "w">>>>,
      <<<<"m", "a", "t", "t", "h", "e", "w">>, <<"M", "a", "t", "t", "h", "e", "w">>>>,
      <<<<"j", "o", "h", "n">>, <<"J", "o", "h", "n">>>> }

\* BOOKS.get(key, default)
BOOKS_get(key, default) ==
    IF \E e \in BOOKS : e[1] = key
    THEN (CHOOSE e \in BOOKS : e[1] = key)[2]
    ELSE default

\* The loop of parse over the matches; an exception of _parse_ranges leaves it
RECURSIVE parse_matches(_, _)
parse_matches(matches, refs) ==
    IF matches = <<>> THEN Returned(refs)
    ELSE LET m == Head(matches)
             normalized_book == BOOKS_get(lower(m.book), title(m.book))
             chapter_list == parse_ranges(m.ranges)
         IN  IF chapter_list.raised THEN Raised
             ELSE parse_matches(Tail(matches),
                      Append(refs, [book |-> normalized_book,
                                    chapters |-> chapter_list.value,
                                    chapter_count |-> Len(chapter_list.value)]))

parse(reference_text) == parse_matches(findall(reference_text, 1), <<>>)

----------------------------------------------------------------------------
(* ReadingPlan and ReadingPlanManager *)

\* TIMEZONES, bot.py's table of UTC offsets in hours
TIMEZONES ==
    ("EST" :> -5) @@ ("EDT" :> -4) @@ ("PST" :> -8) @@ ("PDT" :> -7) @@
    ("GMT" :> 0) @@ ("UTC" :> 0) @@ ("SGT" :> 8) @@ ("GMT+7" :> 7) @@ ("GMT+8" :> 8)

\* TIMEZONES.get(key, default)
TIMEZONES_get(key, default) ==
    IF key \in DOMAIN TIMEZONES THEN TIMEZONES[key] ELSE default

max(a, b) == IF a >= b THEN a ELSE b

\* ReadingPlan(references, start_date, daily_time, timezone).  start_date is
\* the day ordinal of the ISO date that strftime wrote and strptime reads.
ReadingPlan(refs, start, time, tz) ==
    [references |-> refs, start_date |-> start, daily_time |-> time, timezone |-> tz]

\* ReadingPlan.get_current_day, with `now` the day datetime.now() returns
get_current_day_nomax(p, now) == (now - p.start_date) + 1

get_current_day_nooffset(p, now) == max(1, now - p.start_date)

get_current_day(p, now) ==
    LET days_diff == now - p.start_date
    IN  max(1, days_diff + 1)

\* sum(ref['chapter_count'] for ref in references)
RECURSIVE sum_chapter_count(_)
sum_chapter_count(refs) ==
    IF refs = <<>> THEN 0
    ELSE Head(refs).chapter_count + sum_chapter_count(Tail(refs))

calculate_duration(refs) == sum_chapter_count(refs)

\* Optional[str]: None, or the label f"{book} {chapter}"
None == [none |-> TRUE, book |-> <<>>, chapter |-> 0]
Label(book, chapter) == [none |-> FALSE, book |-> book, chapter |-> chapter]

\* The inner loop of get_today_reference over one reference's chapters:
\* count, then compare
RECURSIVE walk_chapters_late(_, _, _, _)
walk_chapters_late(book, chapters, total_chapters, current_day) ==
    IF chapters = <<>> THEN [ref |-> None, total_chapters |-> total_chapters]
    ELSE IF total_chapters = current_day
         THEN [ref |-> Label(book, Head(chapters)), total_chapters |-> total_chapters]
         ELSE walk_chapters_late(book, Tail(chapters), total_chapters + 1, current_day)

RECURSIVE walk_chapters(_, _, _, _)
walk_chapters(book, chapters, total_chapters, current_day) ==
    IF chapters = <<>> THEN [ref |-> None, total_chapters |-> total_chapters]
    ELSE IF total_chapters + 1 = current_day
         THEN [ref |-> Label(book, Head(chapters)), total_chapters |-> total_chapters + 1]
         ELSE walk_chapters(book, Tail(chapters), total_chapters + 1, current_day)

\* The outer loop
RECURSIVE walk_references(_, _, _)
walk_references(refs, total_chapters, current_day) ==
    IF refs = <<>> THEN None
    ELSE LET w == walk_chapters(Head(refs).book, Head(refs).chapters,
                                total_chapters, current_day)
         IN  IF ~w.ref.none THEN w.ref
             ELSE walk_references(Tail(refs), w.total_chapters, current_day)

get_today_reference(p, refs, now) ==
    walk_references(refs, 0, get_current_day(p, now))

is_plan_complete(p, refs, now) ==
    LET current_day == get_current_day(p, now)
        total_chapters == sum_chapter_count(refs)
    IN  current_day > total_chapters

\* progress_percent is a float; the model keeps the exact quotient num / den
Frac(n, d) == [num |-> n, den |-> d]

\* min(100, x) for the quotient x
min100(x) == IF 100 * x.den <= x.num THEN Frac(100, 1) ELSE x

get_plan_progress_nominus(p, refs, now) ==
    LET current_day == get_current_day(p, now)
        total_chapters == sum_chapter_count(refs)
    IN  [current_day |-> current_day,
         total_days |-> total_chapters,
         progress_percent |->
             IF total_chapters > 0
             THEN min100(Frac(current_day * 100, total_chapters))
             ELSE Frac(0, 1),
         is_complete |-> current_day > total_chapters]

get_plan_progress(p, refs, now) ==
    LET current_day == get_current_day(p, now)
        total_chapters == sum_chapter_count(refs)
    IN  [current_day |-> current_day,
         total_days |-> total_chapters,
         progress_percent |->
             IF total_chapters > 0
             THEN min100(Frac((current_day - 1) * 100, total_chapters))
             ELSE Frac(0, 1),
         is_complete |-> current_day > total_chapters]

\* `diff <= 3600` of is_time_to_send
OneHour == 3600

DaySeconds == 24 * OneHour

abs(x) == IF x < 0 THEN 0 - x ELSE x

\* is_time_to_send, with `utc` the time of day datetime.utcnow() returns, in
\* seconds since midnight.  local_time is utc plus the offset; current_time is
\* its time of day, and both datetimes are combined with local_time's date,
\* so their difference is the difference of the two times of day.
is_time_to_send(p, utc) ==
    LET tz_offset == TIMEZONES_get(p.timezone, 0)
        local_time == utc + tz_offset * OneHour
        hm == split(p.daily_time, ":")
        hour == int(hm[1])
        minute == int(hm[2])
        target_time == hour * OneHour + minute * 60
        current_time == local_time % DaySeconds
        diff == abs(current_time - target_time)
    IN  diff <= OneHour

----------------------------------------------------------------------------
(* Values of main's locals and of the plan file *)

DefaultText ==
    <<"P", "s", "a", "l", "m", "s", " ",
      "1", "-", "1", "5", ",", "1", "2", "0", "-", "1", "3", "4">>

DefaultTime == <<"0", "8", ":", "0", "0">>

NoPlan == ReadingPlan(<<>>, 0, <<>>, "")

NoProgress ==
    [current_day |-> 0, total_days |-> 0, progress_percent |-> Frac(0, 1),
     is_complete |-> FALSE]

NoRefs == [parsed |-> FALSE, value |-> <<>>]

NoMessage == [day |-> 0, ref |-> None, text |-> FALSE]

NoPrev ==
    [valid |-> FALSE, plan |-> NoPlan, current_day |-> 0, day |-> 0, last_cursor |-> 0,
     is_complete |-> FALSE, attempted |-> FALSE, success |-> FALSE]

NoFile == [state |-> "absent", data |-> NoPlan]
Stored(p) == [state |-> "record", data |-> p]
Corrupt == [state |-> "corrupt", data |-> NoPlan]

NoInput == [kind |-> "none"]
NoOutput == [done |-> FALSE]

\* The state between runs, with the plan file f
RunInit(f) ==
    /\ file = f
    /\ today = 0
    /\ pc = "idle"
    /\ plan = NoPlan
    /\ progress = NoProgress
    /\ references = NoRefs
    /\ today_ref = None
    /\ passage_data = [none |-> TRUE]
    /\ message = NoMessage
    /\ sends = 0
    /\ success = FALSE
    /\ wrote = FALSE
    /\ reads = <<>>
    /\ prev = NoPrev

----------------------------------------------------------------------------
(* _parse_ranges and parse as functions of their input *)

MaxChapter == 3
MaxTokens == 2

\* str(n), n >= 0
RECURSIVE str(_)
str(n) == IF n < 10 THEN <<Digits[n + 1]>> ELSE str(n \div 10) \o <<Digits[(n % 10) + 1]>>

\* A token is <<A>> or <<A, B>>; its text is "A" or "A-B"
ChapterNumbers == (1..MaxChapter) \cup {10}

Tokens == {<<a>> : a \in ChapterNumbers} \cup (ChapterNumbers \X ChapterNumbers)

TokenLists == UNION {[1..n -> Tokens] : n \in 1..MaxTokens}

TokenText(t) == IF Len(t) = 1 THEN str(t[1]) ELSE str(t[1]) \o <<"-">> \o str(t[2])

RECURSIVE RangesText(_)
RangesText(ts) ==
    IF Len(ts) = 1 THEN TokenText(ts[1])
    ELSE TokenText(ts[1]) \o <<",">> \o RangesText(Tail(ts))

\* The range text of the default plan, and texts that are no range text
ExampleTokens == <<<<1, 15>>, <<120, 134>>>>

MalformedTexts ==
    { <<>>, <<"1", "-", "2", "-", "3">>, <<"1", ",", ",", "2">>, <<"-", "2">>,
      <<"1", "-">>, <<"1", ",">> }

RangeInputs ==
    {[kind |-> "tokens", tokens |-> ts, text |-> RangesText(ts)] :
        ts \in TokenLists \cup {ExampleTokens}}
    \cup {[kind |-> "malformed", tokens |-> <<>>, text |-> t] : t \in MalformedTexts}

InitRanges == rin \in RangeInputs /\ rout = NoOutput /\ RunInit(NoFile)

\* _parse_ranges(text), and parse("Psalms " + text)
ApplyParse ==
    /\ ~rout.done
    /\ rout' = [done |-> TRUE,
                ranges |-> parse_ranges(rin.text),
                parsed |-> parse(<<"P", "s", "a", "l", "m", "s", " ">> \o rin.text)]
    /\ UNCHANGED <<rin, runvars>>

SpecRanges == InitRanges /\ [][ApplyParse]_vars

IsReversed(t) == Len(t) = 2 /\ t[1] > t[2]

ValidTokens(ts) == \A k \in DOMAIN ts : ~IsReversed(ts[k])

\* What a token denotes, and the concatenation over a token list
Denoted(t) == IF Len(t) = 1 THEN <<t[1]>> ELSE [i \in 1..(t[2] - t[1] + 1) |-> t[1] + i - 1]

RECURSIVE DenotedAll(_)
DenotedAll(ts) == IF ts = <<>> THEN <<>> ELSE Denoted(Head(ts)) \o DenotedAll(Tail(ts))

RECURSIVE DenotedCount(_)
DenotedCount(ts) ==
    IF ts = <<>> THEN 0
    ELSE (IF Len(Head(ts)) = 1 THEN 1 ELSE Head(ts)[2] - Head(ts)[1] + 1)
         + DenotedCount(Tail(ts))

\* C10: for valid range text (every token A or A-B with A <= B), _parse_ranges
\* returns the concatenation, in token order, of [A] or A..B per token,
\* overlapping chapters kept once per token, so its length is the sum of the
\* counts the tokens denote; "1-15,120-134" gives 30 chapters.
C10_ParseRangesConcatenates ==
    (rout.done /\ rin.kind = "tokens" /\ ValidTokens(rin.tokens)) =>
        /\ ~rout.ranges.raised
        /\ rout.ranges.value = DenotedAll(rin.tokens)
        /\ Len(rout.ranges.value) = DenotedCount(rin.tokens)
        /\ (rin.tokens = ExampleTokens => Len(rout.ranges.value) = 30)

\* Two overlapping ranges: each chapter of the overlap is returned twice
C10_Witness ==
    /\ rout.done
    /\ rin.kind = "tokens"
    /\ rin.tokens = <<<<1, 3>>, <<2, 3>>>>
    /\ rout.ranges.value = <<1, 2, 3, 2, 3>>

\* C3: a range token A-B with A > B fails with a parse error that reaches the
\* caller of parse; no chapter list is returned for it.
C3_ReversedRangeRaises ==
    (rout.done /\ rin.kind = "tokens" /\ ~ValidTokens(rin.tokens)) =>
        rout.ranges.raised /\ rout.parsed.raised

----------------------------------------------------------------------------
(* get_today_reference, is_plan_complete and get_plan_progress as functions *)
(* of the parsed references and the cursor                                  *)

MaxRefs == 2
MaxLen == 2

John == <<"J", "o", "h", "n">>
Psalms == <<"P", "s", "a", "l", "m", "s">>

\* Chapter lists as _parse_ranges returns them: any order, repeats, or empty
\* (a reversed range)
ChapterLists == UNION {[1..n -> {1, 2}] : n \in 0..MaxLen}

\* Parsed references: entry k names John (k odd) or Psalms (k even)
ReferenceLists ==
    UNION {
        { [k \in 1..n |->
              [book |-> IF k % 2 = 1 THEN John ELSE Psalms,
               chapters |-> cs[k],
               chapter_count |-> Len(cs[k])]] : cs \in [1..n -> ChapterLists] }
        : n \in 0..MaxRefs }

\* Clock days that put the cursor before, at and after every plan's end
ProgressDays == (0 - 1)..(MaxRefs * MaxLen + 1)

ProgressInputs ==
    {[kind |-> "progress", plan |-> ReadingPlan(<<>>, 0, DefaultTime, "SGT"),
      references |-> refs, now |-> d] : refs \in ReferenceLists, d \in ProgressDays}

InitProgress == rin \in ProgressInputs /\ rout = NoOutput /\ RunInit(NoFile)

ApplyProgress ==
    /\ ~rout.done
    /\ rout' = [done |-> TRUE,
                current_day |-> get_current_day(rin.plan, rin.now),
                today_ref |-> get_today_reference(rin.plan, rin.references, rin.now),
                is_complete |-> is_plan_complete(rin.plan, rin.references, rin.now),
                progress |-> get_plan_progress(rin.plan, rin.references, rin.now)]
    /\ UNCHANGED <<rin, runvars>>

SpecProgress == InitProgress /\ [][ApplyProgress]_vars

\* The flattened unit sequence: references in parse order, chapters in
\* per-entry order
RECURSIVE Flatten(_)
Flatten(refs) ==
    IF refs = <<>> THEN <<>>
    ELSE [i \in DOMAIN Head(refs).chapters |->
             Label(Head(refs).book, Head(refs).chapters[i])]
         \o Flatten(Tail(refs))

\* C2: for every parsed reference list and cursor c >= 1, get_today_reference
\* returns the unit at 1-based position c of the flattened sequence when
\* c <= total_days and None exactly when c > total_days; is_complete is false
\* at c = total_days, true at c = total_days + 1, and today's unit is None if
\* and only if is_complete.
C2_TodayUnitIsFlattenedIndex ==
    rout.done =>
        LET c == rout.current_day
            units == Flatten(rin.references)
        IN  /\ c >= 1
            /\ (c <= Len(units) => rout.today_ref = units[c])
            /\ (rout.today_ref.none <=> c > Len(units))
            /\ (rout.is_complete <=> c > Len(units))
            /\ (rout.today_ref.none <=> rout.is_complete)

\* The last unit of a plan with a repeated chapter: not complete, unit found
C2_Witness ==
    /\ rout.done
    /\ Len(rin.references) = 2
    /\ rin.references[1].chapters = <<2, 2>>
    /\ rin.references[2].chapters = <<1>>
    /\ rout.current_day = 3
    /\ rout.today_ref = Label(Psalms, 1)
    /\ ~rout.is_complete

\* Comparison of exact quotients with positive denominators
FracEq(x, y) == x.num * y.den = y.num * x.den
FracLe(x, y) == x.num * y.den <= y.num * x.den

\* C8: for every current_day >= 1 and total_days >= 0, get_plan_progress
\* returns total_days = the total unit count, is_complete = (current_day >
\* total_days), percent_complete = (current_day - 1) / total_days * 100
\* clamped to 0..100 when total_days > 0, and percent_complete = 0 with
\* is_complete true when total_days = 0.
C8_ProgressArithmetic ==
    rout.done =>
        LET g == rout.progress
            total == Len(Flatten(rin.references))
            exact == Frac((g.current_day - 1) * 100, IF total > 0 THEN total ELSE 1)
            pct == g.progress_percent
        IN  /\ g.current_day >= 1
            /\ g.total_days = total
            /\ g.is_complete = (g.current_day > total)
            /\ pct.den > 0
            /\ FracLe(Frac(0, 1), pct) /\ FracLe(pct, Frac(100, 1))
            /\ (total > 0 /\ FracLe(exact, Frac(100, 1)) => FracEq(pct, exact))
            /\ (total > 0 /\ ~FracLe(exact, Frac(100, 1)) => FracEq(pct, Frac(100, 1)))
            /\ (total = 0 => FracEq(pct, Frac(0, 1)) /\ g.is_complete)

\* Day 2 of 3 is one third done; the clamp is reached past the end
C8_Witness ==
    /\ rout.done
    /\ rout.progress.current_day = 2
    /\ rout.progress.total_days = 3
    /\ FracEq(rout.progress.progress_percent, Frac(100, 3))
    /\ ~rout.progress.is_complete

----------------------------------------------------------------------------
(* is_time_to_send as a function of the plan and the clock *)

\* "%02d" % n
fmt2(n) == <<Digits[(n \div 10) + 1], Digits[(n % 10) + 1]>>

DailyTimes == {fmt2(h) \o <<":">> \o fmt2(m) : h \in 0..23, m \in {0, 30}}

ClockTimes == {h * OneHour + m * 60 + sec : h \in 0..23, m \in {0, 30}, sec \in {0, 1}}

TimezoneKeys == {"UTC", "SGT", "EST", "XYZ"}

TimeInputs ==
    {[kind |-> "time", plan |-> ReadingPlan(DefaultText, 0, t, z), utc |-> u] :
        t \in DailyTimes, z \in TimezoneKeys, u \in ClockTimes}

InitTime == rin \in TimeInputs /\ rout = NoOutput /\ RunInit(NoFile)

ApplyTime ==
    /\ ~rout.done
    /\ rout' = [done |-> TRUE, due |-> is_time_to_send(rin.plan, rin.utc)]
    /\ UNCHANGED <<rin, runvars>>

SpecTime == InitTime /\ [][ApplyTime]_vars

\* The local time of day and the configured time of day, in seconds, and
\* their distance on the 24-hour clock
LocalTimeOfDay ==
    (rin.utc + (IF rin.plan.timezone \in DOMAIN TIMEZONES
                THEN TIMEZONES[rin.plan.timezone] ELSE 0) * 3600) % 86400

ConfiguredTimeOfDay ==
    LET t == rin.plan.daily_time
    IN  (DigitVal(t[1]) * 10 + DigitVal(t[2])) * 3600
        + (DigitVal(t[4]) * 10 + DigitVal(t[5])) * 60

ClockDistance(a, b) ==
    LET d == IF a >= b THEN a - b ELSE b - a
    IN  IF d <= 86400 - d THEN d ELSE 86400 - d

\* C6: is_time_to_send is true if and only if the local time of day (UTC now
\* plus the timezone offset, 0 for an unknown key) is within one hour of the
\* configured daily time on the 24-hour clock, also when the window spans
\* midnight.
C6_DueWithinOneHourOnClock ==
    rout.done => (rout.due <=> ClockDistance(LocalTimeOfDay, ConfiguredTimeOfDay) <= 3600)

----------------------------------------------------------------------------
(* The runs of main() *)

MaxDay == 2
MaxBack == 1

T_John12 == <<"J", "o", "h", "n", " ", "1", "-", "2">>
T_NoMatch == <<"h", "e", "l", "l", "o">>
T_Reversed == <<"P", "s", " ", "5", "-", "3">>
T_TwoBooks == <<"j", "n", " ", "1", ",", "1", "-", "2", " ", "p", "s", "3">>

NormalTexts == {T_John12, T_TwoBooks}

\* The plan records an earlier run or the operator may have left in the
\* file: a plan started up to MaxBack days ago, today or tomorrow; a plan
\* whose text has no match and one with a reversed range; and the default
\* plan on its first day, on its last day and past its end
StoredPlans ==
    {ReadingPlan(t, d, DefaultTime, "SGT") : t \in NormalTexts, d \in (0 - MaxBack)..1}
    \cup {ReadingPlan(t, 0, DefaultTime, "SGT") : t \in {T_NoMatch, T_Reversed}}
    \cup {ReadingPlan(DefaultText, d, DefaultTime, "SGT") : d \in {0, 0 - 29, 0 - 30}}

Init ==
    /\ \E f \in {NoFile} \cup {Stored(p) : p \in StoredPlans} : RunInit(f)
    /\ rin = NoInput
    /\ rout = NoOutput

\* A call of get_current_day: the day the clock showed and the cursor returned
Read(p, now) == [day |-> now, cursor |-> get_current_day(p, now)]

\* Whether the run computed the progress from the plan's references (line 316)
ComputedProgress == Len(reads) >= 2

\* prev after the run that just ended: a run that computed the progress from
\* its references is the one the next runs are compared with
Finished ==
    IF ComputedProgress
    THEN [valid |-> TRUE,
          plan |-> plan,
          current_day |-> progress.current_day,
          day |-> reads[2].day,
          last_cursor |-> reads[Len(reads)].cursor,
          is_complete |-> progress.is_complete,
          attempted |-> sends > 0,
          success |-> success]
    ELSE prev

\* The wall clock passes midnight; runs may be missed, and a run may be under way
Tick ==
    /\ today < MaxDay
    /\ today' = today + 1
    /\ UNCHANGED <<file, pc, plan, progress, references, today_ref, passage_data,
                   message, sends, success, wrote, reads, prev, rin, rout>>

\* main, lines 291-302: load_plan; without a plan, create the default one,
\* starting today, and save_plan.  load_plan returns None when the file is
\* absent and when reading it raises (unreadable, no JSON, other keys than
\* the dataclass's); save_plan's open(..., 'w') may fail, leaving the file,
\* and a failing write leaves a truncated file.
LoadPlan ==
    /\ pc \in {"idle", "done", "crashed"}
    /\ prev' = Finished
    /\ \/ /\ file.state = "record"
          /\ plan' = file.data
          /\ UNCHANGED file
          /\ wrote' = FALSE
       \/ /\ plan' = ReadingPlan(DefaultText, today, DefaultTime, "SGT")
          /\ \/ file' = Stored(plan') /\ wrote' = TRUE
             \/ file' = Corrupt /\ wrote' = TRUE
             \/ UNCHANGED file /\ wrote' = FALSE
    /\ progress' = NoProgress
    /\ references' = NoRefs
    /\ today_ref' = None
    /\ passage_data' = [none |-> TRUE]
    /\ message' = NoMessage
    /\ sends' = 0
    /\ success' = FALSE
    /\ reads' = <<>>
    /\ pc' = "progress0"
    /\ UNCHANGED <<today, rin, rout>>

\* main, line 305: get_plan_progress(plan, [])
Progress0 ==
    /\ pc = "progress0"
    /\ progress' = get_plan_progress(plan, <<>>, today)
    /\ reads' = Append(reads, Read(plan, today))
    /\ pc' = "parse"
    /\ UNCHANGED <<file, today, plan, references, today_ref, passage_data, message,
                   sends, success, wrote, prev, rin, rout>>

\* main, lines 310-321: parse the references (an exception ends the run),
\* return when there are none; compute the progress, return when complete
ParseAndProgress ==
    /\ pc = "parse"
    /\ LET r == parse(plan.references)
           g == get_plan_progress(plan, r.value, today)
       IN  IF r.raised
           THEN /\ pc' = "crashed"
                /\ UNCHANGED <<references, progress, reads>>
           ELSE /\ references' = [parsed |-> TRUE, value |-> r.value]
                /\ IF r.value = <<>>
                   THEN /\ pc' = "done"
                        /\ UNCHANGED <<progress, reads>>
                   ELSE /\ progress' = g
                        /\ reads' = Append(reads, Read(plan, today))
                        /\ pc' = IF g.is_complete THEN "done" ELSE "today_ref"
    /\ UNCHANGED <<file, today, plan, today_ref, passage_data, message, sends,
                   success, wrote, prev, rin, rout>>

\* main, lines 324-329: get_today_reference, return when it is None
GetTodayReference ==
    /\ pc = "today_ref"
    /\ today_ref' = get_today_reference(plan, references.value, today)
    /\ reads' = Append(reads, Read(plan, today))
    /\ pc' = IF today_ref'.none THEN "done" ELSE "fetch"
    /\ UNCHANGED <<file, today, plan, progress, references, passage_data, message,
                   sends, success, wrote, prev, rin, rout>>

\* main, lines 332-370: get_passage returns the passage, or None when the
\* provider answers without one or the request fails; either way a message
\* is composed for today_ref under the heading "Day {progress.current_day}"
GetPassage ==
    /\ pc = "fetch"
    /\ \E outcome \in {"text", "absent", "failed"} :
          /\ passage_data' = [none |-> outcome # "text"]
          /\ message' = [day |-> progress.current_day, ref |-> today_ref,
                         text |-> outcome = "text"]
    /\ pc' = "send"
    /\ UNCHANGED <<file, today, plan, progress, references, today_ref, sends,
                   success, wrote, reads, prev, rin, rout>>

\* main, lines 373-382: send_message returns whether the provider accepted
\* the message; nothing is stored either way
SendMessage ==
    /\ pc = "send"
    /\ sends' = sends + 1
    /\ \E ok \in BOOLEAN : success' = ok
    /\ pc' = "done"
    /\ UNCHANGED <<file, today, plan, progress, references, today_ref, passage_data,
                   message, wrote, reads, prev, rin, rout>>

Next ==
    \/ Tick
    \/ LoadPlan
    \/ Progress0
    \/ ParseAndProgress
    \/ GetTodayReference
    \/ GetPassage
    \/ SendMessage

Spec == Init /\ [][Next]_vars

----------------------------------------------------------------------------
(* Properties of the runs *)

\* The run in progress (or just ended) works on the same plan as the last
\* finished run that computed the progress, and has computed its own
SamePlanAgain == ComputedProgress /\ prev.valid /\ prev.plan = plan

\* C1 as claimed: the cursor moves from unit N to unit N+1 only after a run
\* in which unit N was delivered successfully, and then by exactly one; a
\* failed send never causes a unit to be skipped.  (Stated for the runs that
\* follow a run which handed a message to the messaging provider.)
C1_CursorAdvancesOnlyOnDelivery ==
    (SamePlanAgain /\ prev.attempted) =>
        /\ progress.current_day >= prev.current_day
        /\ progress.current_day > prev.current_day =>
               prev.success /\ progress.current_day = prev.current_day + 1

\* C1 as the code has it: the cursor is derived from the calendar date alone.
\* Between two runs of a plan it moves by the number of days that passed
\* (counted from the start date on), whether the earlier run delivered its
\* unit, failed to, or sent nothing.
C1_CursorFollowsCalendar ==
    SamePlanAgain =>
        /\ progress.current_day = max(1, reads[2].day - plan.start_date + 1)
        /\ progress.current_day - prev.current_day
               = max(0, reads[2].day - max(prev.day, plan.start_date))

\* A run whose send failed, and the next run of the plan a day later: the
\* cursor has moved past the unit that was not delivered
C1_Witness ==
    /\ SamePlanAgain
    /\ prev.attempted
    /\ ~prev.success
    /\ progress.current_day = prev.current_day + 1

\* C4 as claimed: once a plan record is stored no run changes it, also when
\* reading it fails.
C4_StoredRecordNeverChanges ==
    [][file.state = "record" => file' = file]_vars

\* The plans some run may read the cursor of
PlansInUse ==
    (IF file.state = "record" THEN {file.data} ELSE {})
    \cup (IF pc = "idle" THEN {} ELSE {plan})
    \cup (IF prev.valid THEN {prev.plan} ELSE {})

\* C5: every cursor a run reads is >= 1; the cursor of a plan never decreases
\* or wraps, within a run, from one run of the plan to the next and as the
\* clock advances; and once a run saw the plan complete, the later runs of the
\* same plan see it complete.
C5_CursorPositiveAndCompletionStable ==
    /\ [](/\ \A i \in DOMAIN reads : reads[i].cursor >= 1
          /\ \A i, j \in DOMAIN reads : i <= j => reads[i].cursor <= reads[j].cursor
          /\ SamePlanAgain =>
                /\ \A i \in DOMAIN reads :
                       reads[i].day >= prev.day => reads[i].cursor >= prev.current_day
                /\ progress.current_day >= prev.last_cursor
                /\ prev.is_complete => progress.is_complete)
    /\ [][\A p \in PlansInUse :
              LET refs == parse(p.references).value
              IN  /\ get_current_day(p, today') >= get_current_day(p, today)
                  /\ is_plan_complete(p, refs, today)
                         => is_plan_complete(p, refs, today')]_vars

\* A plan seen complete by one run and, a day later, by the next
C5_Witness ==
    /\ SamePlanAgain
    /\ prev.is_complete
    /\ progress.is_complete
    /\ reads[2].day > prev.day
    /\ progress.current_day > prev.current_day

\* C7 as claimed: a run sends exactly when the citation text parses to a
\* non-empty reference list and the plan is not complete.  With no reference
\* or a complete plan it sends nothing and writes nothing; otherwise it hands
\* exactly one message, for today's unit, to the messaging provider, whatever
\* the passage-text provider did.
C7_SendsExactlyWhenDue ==
    pc = "done" =>
        LET due == references.value # <<>> /\ ~progress.is_complete
        IN  /\ sends = (IF due THEN 1 ELSE 0)
            /\ (~due => ~wrote /\ message = NoMessage)
            /\ (due => ~message.ref.none /\ message.ref = today_ref)

\* C9 as claimed: within one run every computation of the cursor gives the
\* same value, so the current_day of the progress snapshot, printed as
\* "Day N", is the index of the unit get_today_reference returned and that is
\* sent.
C9_CursorSameWithinRun ==
    ~message.ref.none =>
        LET units == Flatten(references.value)
        IN  /\ reads[2].cursor = reads[3].cursor
            /\ message.day = reads[3].cursor
            /\ message.day \in DOMAIN units
            /\ message.ref = units[message.day]

====
